---- MODULE Spec2Model ----
(***************************************************************************)
(* Model of sed.py: the measurement-gated mutation loop of                 *)
(* process_sed_commands.  Text is modelled as sequences of one-character   *)
(* strings so that strip, split, rstrip, startswith and basename are       *)
(* computed as the Python code computes them.                              *)
(***************************************************************************)
EXTENDS Integers, Sequences, FiniteSets, TLC

(* ---------------------------------------------------------------------- *)
(* Bounds of the model                                                     *)
(* ---------------------------------------------------------------------- *)
MaxContent == 1   \* file contents are 0..MaxContent
BigErr == 10      \* the large error count a channel can report
MaxOutLines == 3  \* cargo output has at most MaxOutLines lines

(* ---------------------------------------------------------------------- *)
(* Text helpers (str.strip, str.startswith, str.split, str.rstrip)         *)
(* ---------------------------------------------------------------------- *)
IsSpace(c) == c = " "

RECURSIVE LStrip(_)
LStrip(s) == IF s # <<>> /\ IsSpace(Head(s)) THEN LStrip(Tail(s)) ELSE s

RECURSIVE RStripSpace(_)
RStripSpace(s) ==
    IF s # <<>> /\ IsSpace(s[Len(s)]) THEN RStripSpace(SubSeq(s, 1, Len(s) - 1)) ELSE s

\* str.strip()
Strip(s) == RStripSpace(LStrip(s))

\* str.startswith(prefix)
StartsWith(s, prefix) ==
    /\ Len(s) >= Len(prefix)
    /\ SubSeq(s, 1, Len(prefix)) = prefix

SedWord == <<"s", "e", "d">>

\* str.split(): the maximal runs of non-whitespace characters, in order
RECURSIVE SplitFrom(_, _)
SplitFrom(s, cur) ==
    IF s = <<>>
    THEN IF cur = <<>> THEN <<>> ELSE <<cur>>
    ELSE IF IsSpace(Head(s))
         THEN IF cur = <<>> THEN SplitFrom(Tail(s), <<>>)
                            ELSE <<cur>> \o SplitFrom(Tail(s), <<>>)
         ELSE SplitFrom(Tail(s), Append(cur, Head(s)))

Split(s) == SplitFrom(s, <<>>)

\* part.rstrip(',;')
RECURSIVE RStripPunct(_)
RStripPunct(s) ==
    IF s # <<>> /\ s[Len(s)] \in {",", ";"}
    THEN RStripPunct(SubSeq(s, 1, Len(s) - 1))
    ELSE s

\* os.path.basename(path): what follows the last "/"
RECURSIVE Basename(_)
Basename(p) ==
    IF \E i \in 1..Len(p) : p[i] = "/"
    THEN Basename(Tail(p))
    ELSE p

(* ---------------------------------------------------------------------- *)
(* The working tree                                                        *)
(* ---------------------------------------------------------------------- *)
PX == <<"x">>
PAX == <<"a", "/", "x">>
Paths == {PX, PAX}

Absent == 0 - 1
Contents == 0..MaxContent
FileVals == {Absent} \cup Contents
Trees == [Paths -> FileVals]

\* os.path.exists(path)
Exists(t, p) == p \in Paths /\ t[p] # Absent

(* ---------------------------------------------------------------------- *)
(* Command sources                                                         *)
(* ---------------------------------------------------------------------- *)
Unavailable == <<"!">>                       \* pyperclip.paste() raises
ClipSed == <<" ", "s", "e", "d", " ", "x", ";", " ">>
ClipOther == <<"x", " ", "s", "e", "d">>
ClipPool == {Unavailable, ClipSed, ClipOther}

NoFile == <<<<"!">>>>                        \* sed.sh does not exist
Consumed == <<"#">>                          \* a source no longer consulted
LineBlank == <<" ", " ">>
LineX == <<"s", "e", "d", " ", "x">>
LineBoth == <<" ", "s", "e", "d", " ", "a", "/", "x", ",", " ", "x", " ">>
FileOne == <<LineBlank, LineBoth, <<>>, LineX>>
FilePool == {NoFile, FileOne}

\* [line.strip() for line in file.readlines() if line.strip()]
RECURSIVE ReadCommands(_)
ReadCommands(lines) ==
    IF lines = <<>> THEN <<>>
    ELSE IF Strip(Head(lines)) # <<>>
         THEN <<Strip(Head(lines))>> \o ReadCommands(Tail(lines))
         ELSE ReadCommands(Tail(lines))

\* the loop over sed_command.split() that collects target_files
RECURSIVE ExistingParts(_, _)
ExistingParts(t, parts) ==
    IF parts = <<>> THEN <<>>
    ELSE IF Exists(t, RStripPunct(Head(parts)))
         THEN <<RStripPunct(Head(parts))>> \o ExistingParts(t, Tail(parts))
         ELSE ExistingParts(t, Tail(parts))

TargetFiles(t, cmd) == ExistingParts(t, Split(cmd))

(* ---------------------------------------------------------------------- *)
(* Measurements (run_cargo_checks)                                         *)
(* ---------------------------------------------------------------------- *)
\* the error counts a channel can report
ErrVals == {0, 1, BigErr}
\* the warning counts a channel can report
WarnVals == {0, 1}
Meas == [ce : ErrVals, cw : WarnVals, te : ErrVals, tw : WarnVals]
NoMeas == [ce |-> 0 - 1, cw |-> 0 - 1, te |-> 0 - 1, tw |-> 0 - 1]
\* the error counts of a measurement (the final warning counts are only printed)
Errors(m) == [ce |-> m.ce, te |-> m.te]
ErrPairs == {Errors(m) : m \in Meas}


\* a regression test on the sum of the two error counts
ErrorsIncreasedTotal(m, ref) == m.ce + m.te > ref.ce + ref.te

\* the regression test of lines 209 and 229: some channel's error count rose
ErrorsIncreased(m, ref) == m.ce > ref.ce \/ m.te > ref.te

(* ---------------------------------------------------------------------- *)
(* Snapshot operations                                                     *)
(* ---------------------------------------------------------------------- *)
EmptyTree == [p \in Paths |-> Absent]

\* shutil.copytree(src, dst, dirs_exist_ok=True): every file of src is
\* written over dst, files that exist only in dst stay
CopyTree(src, dst) == [p \in Paths |-> IF src[p] # Absent THEN src[p] ELSE dst[p]]

\* backup_directory(source_dir, backup_dir)
BackupDirectory(source, backupDir) == CopyTree(source, backupDir)

\* a restore that skips the removal loop of lines 113-118
RestoreDirectoryNoRemove(backupDir, source) == CopyTree(backupDir, source)

\* restore_directory(backup_dir, source_dir): remove the current contents,
\* then copy the backup back
RestoreDirectory(backupDir, source) == CopyTree(backupDir, EmptyTree)

Basenames == {Basename(p) : p \in Paths}
EmptyTmp == [b \in Basenames |-> Absent]

\* lines 186-189 for the first k target files: each is copied to
\* tmpdir/basename, a later copy overwriting an earlier one of the same name
RECURSIVE CopyToTmp(_, _, _, _)
CopyToTmp(t, tmp, targets, k) ==
    IF k = 0 \/ targets = <<>> THEN tmp
    ELSE CopyToTmp(t, [tmp EXCEPT ![Basename(Head(targets))] = t[Head(targets)]],
                   Tail(targets), k - 1)

\* the keys of the dict backups, in insertion order (a repeated target keeps
\* its first position)
RECURSIVE DictKeys(_, _)
DictKeys(targets, seen) ==
    IF targets = <<>> THEN <<>>
    ELSE IF Head(targets) \in seen
         THEN DictKeys(Tail(targets), seen)
         ELSE <<Head(targets)>> \o DictKeys(Tail(targets), seen \cup {Head(targets)})

\* lines 212-213 for the first k entries of backups:
\* shutil.copy(backup_file, target_file)
RECURSIVE CopyBack(_, _, _, _)
CopyBack(t, tmp, keys, k) ==
    IF k = 0 \/ keys = <<>> THEN t
    ELSE CopyBack([t EXCEPT ![Head(keys)] = tmp[Basename(Head(keys))]],
                  tmp, Tail(keys), k - 1)

(* ---------------------------------------------------------------------- *)
(* Lines 29-74: parse_cargo_output                                         *)
(* ---------------------------------------------------------------------- *)
\* Cargo output is a sequence of tokens: a word, one whitespace character
\* " ", or the line terminator NL.
NL == "\n"

\* line 50, str.splitlines(): the lines between terminators, no empty last line
RECURSIVE SplitLinesFrom(_, _, _)
SplitLinesFrom(text, i, cur) ==
    IF i > Len(text)
    THEN IF cur = <<>> THEN <<>> ELSE <<cur>>
    ELSE IF text[i] = NL
         THEN <<cur>> \o SplitLinesFrom(text, i + 1, <<>>)
         ELSE SplitLinesFrom(text, i + 1, Append(cur, text[i]))

SplitLines(text) == SplitLinesFrom(text, 1, <<>>)

\* the words \d+ matches, and int() of them
NumberWords == {"0", "1", "2", "3"}
IntOf(word) ==
    CASE word = "0" -> 0
      [] word = "1" -> 1
      [] word = "2" -> 2
      [] word = "3" -> 3

\* the words that begin with "[E", and the words that hold a pair of
\* backquotes (written ' here, a string of the model cannot hold a backquote)
BracketE == {"[E0308]"}
Quoted == {"'demo'", "'demo',"}

\* re.IGNORECASE: the word as the pattern's lower-case literals see it
Lower(word) ==
    CASE word = "Error:" -> "error:"
      [] word = "Warning:" -> "warning:"
      [] OTHER -> word

\* the elements of a pattern
Lit(S) == [k |-> "lit", s |-> S]           \* one word of S
Ws1 == [k |-> "ws+", s |-> {}]             \* \s+
Ws0 == [k |-> "ws*", s |-> {}]             \* \s*
AnyLazy == [k |-> "any", s |-> {}]         \* .*?
Num == [k |-> "num", s |-> {}]             \* (\d+)
NotAhead(S) == [k |-> "not", s |-> S]      \* (?!...)

\* lines 43-46
compile_fail_pattern ==
    <<Lit({"error:"}), Ws1, Lit({"could"}), Lit({" "}), Lit({"not"}),
      Lit({" "}), Lit({"compile"}), Lit({" "}), Lit(Quoted), AnyLazy,
      Lit({"due"}), Lit({" "}), Lit({"to"}), Ws1, Num, Ws1,
      Lit({"previous"}), Lit({" "}),
      Lit({"error", "errors", "error;", "errors;"}), Ws1, Num, Ws1,
      Lit({"warning", "warnings"}), Lit({" "}), Lit({"emitted"})>>

\* line 47
individual_error_pattern == <<Ws0, Lit({"error:"}), Ws1, NotAhead(BracketE)>>

\* line 48
individual_warning_pattern == <<Ws0, Lit({"warning:"}), Ws1, NotAhead(BracketE)>>

NoMatch == [ok |-> FALSE, groups |-> <<>>]

\* the number of whitespace tokens of line from position i on
RECURSIVE SpaceRun(_, _)
SpaceRun(line, i) ==
    IF i <= Len(line) /\ IsSpace(line[i]) THEN 1 + SpaceRun(line, i + 1) ELSE 0

\* the backtracking match of pat from element j on against line from
\* position i on, anchored at i; groups are the numbers captured so far
RECURSIVE MatchFrom(_, _, _, _, _, _)
RECURSIVE Greedy(_, _, _, _, _, _, _, _)
RECURSIVE Lazy(_, _, _, _, _, _, _)

MatchFrom(line, i, pat, j, groups, ic) ==
    IF j > Len(pat)
    THEN [ok |-> TRUE, groups |-> groups]
    ELSE LET e == pat[j]
             here == i <= Len(line)
             word == IF ~here THEN "" ELSE IF ic THEN Lower(line[i]) ELSE line[i]
         IN  CASE e.k = "lit" ->
                    IF here /\ word \in e.s
                    THEN MatchFrom(line, i + 1, pat, j + 1, groups, ic)
                    ELSE NoMatch
               [] e.k = "num" ->
                    IF here /\ word \in NumberWords
                    THEN MatchFrom(line, i + 1, pat, j + 1,
                                   Append(groups, IntOf(word)), ic)
                    ELSE NoMatch
               [] e.k = "not" ->
                    IF here /\ word \in e.s
                    THEN NoMatch
                    ELSE MatchFrom(line, i, pat, j + 1, groups, ic)
               [] e.k = "ws+" ->
                    Greedy(line, i, SpaceRun(line, i), 1, pat, j, groups, ic)
               [] e.k = "ws*" ->
                    Greedy(line, i, SpaceRun(line, i), 0, pat, j, groups, ic)
               [] e.k = "any" ->
                    Lazy(line, i, 0, pat, j, groups, ic)

\* a greedy repetition: the longest run first, then shorter ones
Greedy(line, i, k, least, pat, j, groups, ic) ==
    IF k < least
    THEN NoMatch
    ELSE LET r == MatchFrom(line, i + k, pat, j + 1, groups, ic)
         IN  IF r.ok THEN r
             ELSE Greedy(line, i, k - 1, least, pat, j, groups, ic)

\* a lazy repetition: the shortest run first, then longer ones
Lazy(line, i, k, pat, j, groups, ic) ==
    IF i + k > Len(line) + 1
    THEN NoMatch
    ELSE LET r == MatchFrom(line, i + k, pat, j + 1, groups, ic)
         IN  IF r.ok THEN r
             ELSE Lazy(line, i, k + 1, pat, j, groups, ic)

\* pattern.match(line) and, the patterns being anchored by ^, pattern.search
Match(line, pat, ic) == MatchFrom(line, 1, pat, 1, <<>>, ic)

\* the body of the loop without the continue of line 62
LineCountsNoContinue(line) ==
    LET cf == Match(line, compile_fail_pattern, TRUE)
        e == IF Match(line, individual_error_pattern, FALSE).ok THEN 1 ELSE 0
        w == IF Match(line, individual_warning_pattern, FALSE).ok THEN 1 ELSE 0
    IN  IF cf.ok THEN <<cf.groups[1] + e, cf.groups[2] + w>> ELSE <<e, w>>

\* lines 55-72, the body of the loop: what one line adds to (errors,
\* warnings)
LineCounts(line) ==
    LET cf == Match(line, compile_fail_pattern, TRUE)
    IN  IF cf.ok
        THEN <<cf.groups[1], cf.groups[2]>>
        ELSE <<IF Match(line, individual_error_pattern, FALSE).ok THEN 1 ELSE 0,
               IF Match(line, individual_warning_pattern, FALSE).ok THEN 1 ELSE 0>>

\* lines 39-74 as a function of the text
RECURSIVE CountLines(_)
CountLines(ls) ==
    IF ls = <<>> THEN <<0, 0>>
    ELSE LET c == LineCounts(Head(ls))
             r == CountLines(Tail(ls))
         IN  <<c[1] + r[1], c[2] + r[2]>>

parse_cargo_output(text) == CountLines(SplitLines(text))

\* the lines of cargo output the model draws from
\* error: could not compile 'demo', due to n previous errors; m warnings emitted
SummaryForm(n, m) ==
    <<"error:", " ", "could", " ", "not", " ", "compile", " ", "'demo',", " ",
      "due", " ", "to", " ", n, " ", "previous", " ", "errors;", " ", m,
      " ", "warnings", " ", "emitted">>
SummaryLine == SummaryForm("3", "2")
SummaryLineOne == SummaryForm("1", "0")
SummaryLineBin ==
    <<"Error:", " ", "could", " ", "not", " ", "compile", " ", "'demo'", " ",
      "(bin)", " ", "due", " ", "to", " ", " ", "1", " ", "previous", " ",
      "error;", " ", "0", " ", "warnings", " ", "emitted">>
ErrorLine == <<"error:", " ", "mismatched", " ", "types">>
WarningLine == <<"warning:", " ", "unused", " ", "variable">>
IndentedErrorLine == <<" ", " ", "error:", " ", "aborting">>
CodedErrorLine == <<"error:", " ", "[E0308]">>
WarningsEmittedLine == <<"warning:", " ", "2", " ", "warnings", " ", "emitted">>
OtherLine == <<"Compiling", " ", "demo">>
LinePool ==
    {SummaryLine, SummaryLineOne, SummaryLineBin, ErrorLine, WarningLine, IndentedErrorLine,
     CodedErrorLine, WarningsEmittedLine, OtherLine}

\* the text of the lines ls, each terminated, the last one only if closed
RECURSIVE JoinLines(_, _)
JoinLines(ls, closed) ==
    IF ls = <<>> THEN <<>>
    ELSE IF Len(ls) = 1 /\ ~closed THEN Head(ls)
    ELSE Head(ls) \o <<NL>> \o JoinLines(Tail(ls), closed)

LineSeqs == UNION {[1..n -> LinePool] : n \in 0..MaxOutLines}
OutputPool == {JoinLines(ls, closed) : ls \in LineSeqs, closed \in BOOLEAN}

(* ---------------------------------------------------------------------- *)
(* State                                                                   *)
(* ---------------------------------------------------------------------- *)
VARIABLES
    pc,              \* position in process_sed_commands
    clipboard,       \* what pyperclip.paste() yields, Consumed once read
    sed_file,        \* the lines of sed.sh, or NoFile, Consumed once resolved
    tree,            \* the working directory (source_dir)
    tree0,           \* history: the working directory when the run began
    initial_backup,  \* the contents of initial_backup_dir
    backup_state,    \* "none", "exists" or "deleted": initial_backup_dir
    sed_commands,    \* the resolved command list
    idx,             \* enumerate index of the command being processed
    initial,         \* initial_check_errors, ..., initial_test_warnings
    new,             \* new_check_errors, ..., new_test_warnings of the current command
    tmpdir,          \* the per-command backup directory, keyed by basename
    backups,         \* the keys of the dict backups of the current command
    preTree,         \* history: the tree when the current command was backed up
    base,            \* history: the measurement of the most recently accepted state
    decision,        \* history: how the latest command ended
    final,           \* final_check_errors, final_test_errors
    rolledBack,      \* "none", "no" or "yes": the branch taken at line 229
    producerInvoked, \* history: run_cargo_checks was invoked in this run
    mutatorInvoked,  \* history: a sed command was run in this run
    steps,           \* history: the steps taken for the current command
    fileRead,        \* history: sed.sh was opened and read
    oracle,          \* what run_cargo_checks reported for each tree, when repeatable
    output,          \* parse_cargo_output: the text to parse
    rest,            \* parse_cargo_output: the lines not yet scanned
    errors,          \* parse_cargo_output: errors
    warnings,        \* parse_cargo_output: warnings
    ppc              \* position in parse_cargo_output

vars == <<pc, clipboard, sed_file, tree, tree0, initial_backup, backup_state,
          sed_commands, idx, initial, new, tmpdir, backups, preTree, base,
          decision, final, rolledBack, producerInvoked, mutatorInvoked, steps, fileRead,
          oracle, output, rest, errors, warnings, ppc>>

parserVars == <<output, rest, errors, warnings, ppc>>

\* parse_cargo_output is not being called
ParserIdle ==
    /\ output = <<>>
    /\ rest = <<>>
    /\ errors = 0
    /\ warnings = 0
    /\ ppc = "idle"

\* run_cargo_checks may report anything at any call
OracleOff == [on |-> FALSE, m |-> <<>>]
\* run_cargo_checks reports the same for the same tree; nothing reported yet
OracleOn == [on |-> TRUE, m |-> [t \in Trees |-> NoMeas]]

\* what run_cargo_checks can report for tree t
Readings(t) ==
    IF oracle.on /\ oracle.m[t] # NoMeas THEN {oracle.m[t]} ELSE Meas

\* the error counts run_cargo_checks can report for tree t at line 223
FinalReadings(t) == {Errors(m) : m \in Readings(t)}

\* the oracle after run_cargo_checks reported m for tree t
Learn(t, m) ==
    IF oracle.on THEN [oracle EXCEPT !.m[t] = m] ELSE oracle

\* the trees a run starts from: the two files, when present, may differ
InitTrees == {t \in Trees : t[PX] \in {Absent, 1} /\ t[PAX] \in {Absent, 0}}

\* the state of process_sed_commands when it is entered
RunStart ==
    /\ pc = "start"
    /\ clipboard \in ClipPool
    /\ sed_file \in FilePool
    /\ tree \in InitTrees
    /\ tree0 = tree
    /\ initial_backup = EmptyTree
    /\ backup_state = "none"
    /\ sed_commands = <<>>
    /\ idx = 0
    /\ initial = NoMeas
    /\ new = NoMeas
    /\ tmpdir = EmptyTmp
    /\ backups = <<>>
    /\ preTree = tree
    /\ base = NoMeas
    /\ decision = "none"
    /\ final = Errors(NoMeas)
    /\ rolledBack = "none"
    /\ producerInvoked = FALSE
    /\ mutatorInvoked = FALSE
    /\ steps = <<>>
    /\ fileRead = FALSE

Init ==
    /\ RunStart
    /\ oracle = OracleOff
    /\ ParserIdle

(* ---------------------------------------------------------------------- *)
(* Lines 130-134: create the run-level backup                              *)
(* ---------------------------------------------------------------------- *)
Start ==
    /\ pc = "start"
    /\ initial_backup' = BackupDirectory(tree, initial_backup)
    /\ backup_state' = "exists"
    /\ pc' = "resolve"
    /\ UNCHANGED <<parserVars, oracle,
                   clipboard, sed_file, tree, tree0, sed_commands, idx,
                   initial, new, tmpdir, backups, preTree, base, decision,
                   final, rolledBack, producerInvoked, mutatorInvoked, steps,
                   fileRead>>

(* ---------------------------------------------------------------------- *)
(* Lines 136-155: resolve the command list                                 *)
(* ---------------------------------------------------------------------- *)
\* lines 138-140: the clipboard is readable and its stripped content starts
\* with "sed"
ClipboardHasSed(clip) == clip # Unavailable /\ StartsWith(Strip(clip), SedWord)

\* a resolver that prefers sed.sh over the clipboard
ResolvedCommandsFileFirst(clip, lines) ==
    IF lines # NoFile THEN ReadCommands(lines) ELSE <<Strip(clip)>>

\* lines 141 and 155: the command list, given which source is used
ResolvedCommands(clip, lines) ==
    IF ClipboardHasSed(clip) THEN <<Strip(clip)>> ELSE ReadCommands(lines)

ResolveClipboard ==
    /\ pc = "resolve"
    /\ ClipboardHasSed(clipboard)
    /\ sed_commands' = ResolvedCommands(clipboard, sed_file)
    /\ clipboard' = Consumed
    /\ pc' = "baseline"
    /\ UNCHANGED <<parserVars, oracle,
                   sed_file, tree, tree0, initial_backup, backup_state, idx,
                   initial, new, tmpdir, backups, preTree, base, decision,
                   final, rolledBack, producerInvoked, mutatorInvoked, steps,
                   fileRead>>

ResolveFile ==
    /\ pc = "resolve"
    /\ ~ClipboardHasSed(clipboard)
    /\ sed_file # NoFile
    /\ sed_commands' = ResolvedCommands(clipboard, sed_file)
    /\ fileRead' = TRUE
    /\ clipboard' = Consumed
    /\ sed_file' = Consumed
    /\ pc' = "baseline"
    /\ UNCHANGED <<parserVars, oracle,
                   tree, tree0, initial_backup, backup_state, idx, initial,
                   new, tmpdir, backups, preTree, base, decision, final,
                   rolledBack, producerInvoked, mutatorInvoked, steps>>

\* a not-found path that measures before it returns
ResolveNotFoundAfterMeasuring ==
    /\ pc = "resolve"
    /\ ~ClipboardHasSed(clipboard)
    /\ sed_file = NoFile
    /\ producerInvoked' = TRUE
    /\ initial_backup' = EmptyTree
    /\ backup_state' = "deleted"
    /\ pc' = "done"
    /\ UNCHANGED <<parserVars, oracle,
                   clipboard, sed_file, tree, tree0, sed_commands, idx, initial,
                   new, tmpdir, backups, preTree, base, decision, final,
                   rolledBack, mutatorInvoked, steps, fileRead>>

\* lines 148-152: sed.sh not found, the initial backup is removed and the run
\* returns
ResolveNotFound ==
    /\ pc = "resolve"
    /\ ~ClipboardHasSed(clipboard)
    /\ sed_file = NoFile
    /\ initial_backup' = EmptyTree
    /\ backup_state' = "deleted"
    /\ pc' = "done"
    /\ UNCHANGED <<parserVars, oracle,
                   clipboard, sed_file, tree, tree0, sed_commands, idx,
                   initial, new, tmpdir, backups, preTree, base, decision,
                   final, rolledBack, producerInvoked, mutatorInvoked, steps,
                   fileRead>>

(* ---------------------------------------------------------------------- *)
(* Line 159: the pre-run measurement                                       *)
(* ---------------------------------------------------------------------- *)
Baseline ==
    /\ pc = "baseline"
    /\ \E m \in Readings(tree) :
         /\ initial' = m
         /\ base' = m
         /\ oracle' = Learn(tree, m)
    /\ producerInvoked' = TRUE
    /\ idx' = 1
    /\ pc' = "loop"
    /\ UNCHANGED <<parserVars,
                   clipboard, sed_file, tree, tree0, initial_backup,
                   backup_state, sed_commands, new, tmpdir, backups, preTree,
                   decision, final, rolledBack, mutatorInvoked, steps,
                   fileRead>>

\* run_cargo_checks raises at line 159 (subprocess.run cannot decode the
\* output, or cannot spawn): the exception leaves the function
BaselineRaises ==
    /\ pc = "baseline"
    /\ producerInvoked' = TRUE
    /\ pc' = "crashed"
    /\ UNCHANGED <<parserVars, oracle,
                   clipboard, sed_file, tree, tree0, initial_backup,
                   backup_state, sed_commands, idx, initial, new, tmpdir,
                   backups, preTree, base, decision, final, rolledBack,
                   mutatorInvoked, steps, fileRead>>

(* ---------------------------------------------------------------------- *)
(* Lines 165-219: the per-command loop                                     *)
(* ---------------------------------------------------------------------- *)
HasCommand == pc = "loop" /\ idx <= Len(sed_commands)
Command == sed_commands[idx]

\* a skip that measures the tree and takes the result as the new reference
SkipCommandAfterMeasuring ==
    /\ HasCommand
    /\ TargetFiles(tree, Command) = <<>>
    /\ \E m \in Meas :
         /\ new' = m
         /\ initial' = m
    /\ decision' = "skipped"
    /\ steps' = <<>>
    /\ idx' = idx + 1
    /\ UNCHANGED <<parserVars, oracle,
                   pc, clipboard, sed_file, tree, tree0, initial_backup,
                   backup_state, sed_commands, tmpdir, backups, preTree,
                   base, final, rolledBack, producerInvoked, mutatorInvoked,
                   fileRead>>

\* lines 181-183: no token of the command is an existing path
SkipCommand ==
    /\ HasCommand
    /\ TargetFiles(tree, Command) = <<>>
    /\ decision' = "skipped"
    /\ steps' = <<>>
    /\ idx' = idx + 1
    /\ new' = NoMeas
    /\ UNCHANGED <<parserVars, oracle,
                   pc, clipboard, sed_file, tree, tree0, initial_backup,
                   backup_state, sed_commands, initial, tmpdir, backups,
                   preTree, base, final, rolledBack, producerInvoked,
                   mutatorInvoked, fileRead>>

\* a loop that runs the command before any target file is copied
BackupTargetsSkipped ==
    /\ HasCommand
    /\ TargetFiles(tree, Command) # <<>>
    /\ backups' = DictKeys(TargetFiles(tree, Command), {})
    /\ preTree' = tree
    /\ decision' = "none"
    /\ steps' = <<>>
    /\ pc' = "apply"
    /\ new' = NoMeas
    /\ UNCHANGED <<parserVars, oracle,
                   clipboard, sed_file, tree, tree0, initial_backup,
                   backup_state, sed_commands, idx, initial, tmpdir, base,
                   final, rolledBack, producerInvoked, mutatorInvoked,
                   fileRead>>

\* lines 185-189: every target file is copied into tmpdir
BackupTargets ==
    /\ HasCommand
    /\ TargetFiles(tree, Command) # <<>>
    /\ LET targets == TargetFiles(tree, Command) IN
         /\ tmpdir' = CopyToTmp(tree, tmpdir, targets, Len(targets))
         /\ backups' = DictKeys(targets, {})
    /\ preTree' = tree
    /\ decision' = "none"
    /\ steps' = <<"backup">>
    /\ pc' = "apply"
    /\ new' = NoMeas
    /\ UNCHANGED <<parserVars, oracle,
                   clipboard, sed_file, tree, tree0, initial_backup,
                   backup_state, sed_commands, idx, initial, base, final,
                   rolledBack, producerInvoked, mutatorInvoked, fileRead>>

\* shutil.copy raises at line 188 on the (k+1)-th target file: caught at
\* line 217
BackupRaises ==
    /\ HasCommand
    /\ TargetFiles(tree, Command) # <<>>
    /\ LET targets == TargetFiles(tree, Command) IN
         \E k \in 0..(Len(targets) - 1) :
             tmpdir' = CopyToTmp(tree, tmpdir, targets, k)
    /\ decision' = "exception"
    /\ steps' = <<"backup">>
    /\ idx' = idx + 1
    /\ new' = NoMeas
    /\ UNCHANGED <<parserVars, oracle,
                   pc, clipboard, sed_file, tree, tree0, initial_backup,
                   backup_state, sed_commands, initial, backups, preTree,
                   base, final, rolledBack, producerInvoked, mutatorInvoked,
                   fileRead>>

\* line 192 with exit status 0: the sed command is an opaque shell command,
\* it may leave any tree behind
ApplyOk ==
    /\ pc = "apply"
    /\ \E t \in Trees : tree' = t
    /\ mutatorInvoked' = TRUE
    /\ steps' = Append(steps, "apply")
    /\ pc' = "measure"
    /\ UNCHANGED <<parserVars, oracle,
                   clipboard, sed_file, tree0, initial_backup, backup_state,
                   sed_commands, idx, initial, new, tmpdir, backups, preTree,
                   base, decision, final, rolledBack, producerInvoked,
                   fileRead>>

\* lines 192-195: nonzero exit status, "skipping"; the command may have
\* written files before it failed
ApplyFails ==
    /\ pc = "apply"
    /\ \E t \in Trees : tree' = t
    /\ mutatorInvoked' = TRUE
    /\ steps' = Append(steps, "apply")
    /\ decision' = "failed"
    /\ backups' = <<>>
    /\ preTree' = tree'
    /\ idx' = idx + 1
    /\ pc' = "loop"
    /\ UNCHANGED <<parserVars, oracle,
                   clipboard, sed_file, tree0, initial_backup, backup_state,
                   sed_commands, initial, new, tmpdir, base, final,
                   rolledBack, producerInvoked, fileRead>>

\* run_command raises at line 192 (the command may have run): caught at
\* line 217
ApplyRaises ==
    /\ pc = "apply"
    /\ \E t \in Trees : tree' = t
    /\ mutatorInvoked' = TRUE
    /\ steps' = Append(steps, "apply")
    /\ decision' = "exception"
    /\ backups' = <<>>
    /\ preTree' = tree'
    /\ idx' = idx + 1
    /\ pc' = "loop"
    /\ UNCHANGED <<parserVars, oracle,
                   clipboard, sed_file, tree0, initial_backup, backup_state,
                   sed_commands, initial, new, tmpdir, base, final,
                   rolledBack, producerInvoked, fileRead>>

\* an error reduction above 8 and above half of the reference count
Anomalous(m, ref) ==
    \/ (ref.ce - m.ce > 8 /\ 2 * (ref.ce - m.ce) > ref.ce)
    \/ (ref.te - m.te > 8 /\ 2 * (ref.te - m.te) > ref.te)

\* a decision that keeps a change only if some error count fell
KeepsChangeOnlyIfImproved(m, ref) ==
    ~ErrorsIncreased(m, ref) /\ (m.ce < ref.ce \/ m.te < ref.te)

\* a decision that also reverts an anomalous improvement
KeepsChangeUnlessAnomalous(m, ref) ==
    ~ErrorsIncreased(m, ref) /\ ~Anomalous(m, ref)

\* a decision that also reverts a change that added warnings
KeepsChangeNoNewWarnings(m, ref) ==
    ~ErrorsIncreased(m, ref) /\ m.cw <= ref.cw /\ m.tw <= ref.tw

\* a decision that keeps a change when the sum of the error counts did not rise
KeepsChangeTotal(m, ref) == m.ce + m.te <= ref.ce + ref.te

\* line 209 negated (the else of line 214): no channel's error count is above
\* the initial one, the change is kept
KeepsChange(m, ref) == ~ErrorsIncreased(m, ref)

\* lines 198-215, the branch of line 214
MeasureKeep ==
    /\ pc = "measure"
    /\ \E m \in Readings(tree) :
         /\ KeepsChange(m, initial)
         /\ new' = m
         /\ base' = m
         /\ oracle' = Learn(tree, m)
    /\ producerInvoked' = TRUE
    /\ steps' = Append(steps, "measure")
    /\ decision' = "accepted"
    /\ backups' = <<>>
    /\ preTree' = tree
    /\ idx' = idx + 1
    /\ pc' = "loop"
    /\ UNCHANGED <<parserVars,
                   clipboard, sed_file, tree, tree0, initial_backup,
                   backup_state, sed_commands, initial, tmpdir, final,
                   rolledBack, mutatorInvoked, fileRead>>

\* lines 198-213, the branch of line 209: the target files are copied back
MeasureRevert ==
    /\ pc = "measure"
    /\ \E m \in Readings(tree) :
         /\ ~KeepsChange(m, initial)
         /\ new' = m
         /\ oracle' = Learn(tree, m)
    /\ tree' = CopyBack(tree, tmpdir, backups, Len(backups))
    /\ producerInvoked' = TRUE
    /\ steps' = steps \o <<"measure", "restore">>
    /\ decision' = "reverted"
    /\ backups' = <<>>
    /\ preTree' = tree'
    /\ idx' = idx + 1
    /\ pc' = "loop"
    /\ UNCHANGED <<parserVars,
                   clipboard, sed_file, tree0, initial_backup, backup_state,
                   sed_commands, initial, tmpdir, base, final, rolledBack,
                   mutatorInvoked, fileRead>>

\* run_cargo_checks raises at line 198: caught at line 217, nothing is
\* copied back
MeasureRaises ==
    /\ pc = "measure"
    /\ producerInvoked' = TRUE
    /\ steps' = Append(steps, "measure")
    /\ decision' = "exception"
    /\ backups' = <<>>
    /\ preTree' = tree
    /\ idx' = idx + 1
    /\ pc' = "loop"
    /\ UNCHANGED <<parserVars, oracle,
                   clipboard, sed_file, tree, tree0, initial_backup,
                   backup_state, sed_commands, initial, new, tmpdir, base,
                   final, rolledBack, mutatorInvoked, fileRead>>

\* shutil.copy raises at line 213 on the (k+1)-th entry: caught at line 217
RevertRaises ==
    /\ pc = "measure"
    /\ \E m \in Readings(tree) :
         /\ ~KeepsChange(m, initial)
         /\ new' = m
         /\ oracle' = Learn(tree, m)
    /\ \E k \in 0..(Len(backups) - 1) :
         tree' = CopyBack(tree, tmpdir, backups, k)
    /\ producerInvoked' = TRUE
    /\ steps' = steps \o <<"measure", "restore">>
    /\ decision' = "exception"
    /\ backups' = <<>>
    /\ preTree' = tree'
    /\ idx' = idx + 1
    /\ pc' = "loop"
    /\ UNCHANGED <<parserVars,
                   clipboard, sed_file, tree0, initial_backup, backup_state,
                   sed_commands, initial, tmpdir, base, final, rolledBack,
                   mutatorInvoked, fileRead>>

\* a loop that may end before every command was processed
LoopEndEarly ==
    /\ pc = "loop"
    /\ tmpdir' = EmptyTmp
    /\ base' = NoMeas
    /\ decision' = "none"
    /\ steps' = <<>>
    /\ pc' = "final"
    /\ new' = NoMeas
    /\ UNCHANGED <<parserVars, oracle,
                   clipboard, sed_file, tree, tree0, initial_backup,
                   backup_state, sed_commands, idx, initial, backups, preTree,
                   final, rolledBack, producerInvoked, mutatorInvoked,
                   fileRead>>

\* line 165: the with block ends and tmpdirname is removed; the history of
\* the loop is cleared
LoopEnd ==
    /\ pc = "loop"
    /\ idx > Len(sed_commands)
    /\ tmpdir' = EmptyTmp
    /\ base' = NoMeas
    /\ decision' = "none"
    /\ steps' = <<>>
    /\ pc' = "final"
    /\ new' = NoMeas
    /\ UNCHANGED <<parserVars, oracle,
                   clipboard, sed_file, tree, tree0, initial_backup,
                   backup_state, sed_commands, idx, initial, backups, preTree,
                   final, rolledBack, producerInvoked, mutatorInvoked,
                   fileRead>>

(* ---------------------------------------------------------------------- *)
(* Lines 221-237: final measurement, rollback decision, cleanup            *)
(* ---------------------------------------------------------------------- *)
\* lines 223-233, the branch of line 232: no full restore
FinalKeep ==
    /\ pc = "final"
    /\ \E e \in FinalReadings(tree) :
         /\ ~ErrorsIncreased(e, initial)
         /\ final' = e
    /\ producerInvoked' = TRUE
    /\ rolledBack' = "no"
    /\ pc' = "cleanup"
    /\ UNCHANGED <<parserVars, oracle,
                   clipboard, sed_file, tree, tree0, initial_backup,
                   backup_state, sed_commands, idx, initial, new, tmpdir,
                   backups, preTree, base, decision, mutatorInvoked, steps,
                   fileRead>>

\* lines 223-231: the whole tree is restored from the initial backup
FinalRestore ==
    /\ pc = "final"
    /\ \E e \in FinalReadings(tree) :
         /\ ErrorsIncreased(e, initial)
         /\ final' = e
    /\ tree' = RestoreDirectory(initial_backup, tree)
    /\ preTree' = tree
    /\ producerInvoked' = TRUE
    /\ rolledBack' = "yes"
    /\ pc' = "cleanup"
    /\ UNCHANGED <<parserVars, oracle,
                   clipboard, sed_file, tree0, initial_backup, backup_state,
                   sed_commands, idx, initial, new, tmpdir, backups, base,
                   decision, mutatorInvoked, steps, fileRead>>

\* run_cargo_checks raises at line 223: the exception leaves the function
FinalRaises ==
    /\ pc = "final"
    /\ producerInvoked' = TRUE
    /\ pc' = "crashed"
    /\ UNCHANGED <<parserVars, oracle,
                   clipboard, sed_file, tree, tree0, initial_backup,
                   backup_state, sed_commands, idx, initial, new, tmpdir,
                   backups, preTree, base, decision, final, rolledBack,
                   mutatorInvoked, steps, fileRead>>

\* restore_directory raises part way (lines 113-120): each file is as it
\* was, removed, or already restored; the exception leaves the function
RestoreRaises ==
    /\ pc = "final"
    /\ \E e \in FinalReadings(tree) :
         /\ ErrorsIncreased(e, initial)
         /\ final' = e
    /\ \E t \in Trees :
         /\ \A p \in Paths : t[p] \in {tree[p], Absent, initial_backup[p]}
         /\ tree' = t
    /\ preTree' = tree
    /\ producerInvoked' = TRUE
    /\ rolledBack' = "yes"
    /\ pc' = "crashed"
    /\ UNCHANGED <<parserVars, oracle,
                   clipboard, sed_file, tree0, initial_backup, backup_state,
                   sed_commands, idx, initial, new, tmpdir, backups, base,
                   decision, mutatorInvoked, steps, fileRead>>

\* line 236: shutil.rmtree(initial_backup_dir)
Cleanup ==
    /\ pc = "cleanup"
    /\ initial_backup' = EmptyTree
    /\ backup_state' = "deleted"
    /\ pc' = "done"
    /\ UNCHANGED <<parserVars, oracle,
                   clipboard, sed_file, tree, tree0, sed_commands, idx,
                   initial, new, tmpdir, backups, preTree, base, decision,
                   final, rolledBack, producerInvoked, mutatorInvoked, steps,
                   fileRead>>

Next ==
    \/ Start
    \/ ResolveClipboard
    \/ ResolveFile
    \/ ResolveNotFound
    \/ Baseline
    \/ BaselineRaises
    \/ SkipCommand
    \/ BackupTargets
    \/ BackupRaises
    \/ ApplyOk
    \/ ApplyFails
    \/ ApplyRaises
    \/ MeasureKeep
    \/ MeasureRevert
    \/ MeasureRaises
    \/ RevertRaises
    \/ LoopEnd
    \/ FinalKeep
    \/ FinalRestore
    \/ FinalRaises
    \/ RestoreRaises
    \/ Cleanup

Spec == Init /\ [][Next]_vars

(* ---------------------------------------------------------------------- *)
(* Runs in which every call outside the per-command try block returns      *)
(* ---------------------------------------------------------------------- *)
NextReturns ==
    \/ Start
    \/ ResolveClipboard
    \/ ResolveFile
    \/ ResolveNotFound
    \/ Baseline
    \/ SkipCommand
    \/ BackupTargets
    \/ BackupRaises
    \/ ApplyOk
    \/ ApplyFails
    \/ ApplyRaises
    \/ MeasureKeep
    \/ MeasureRevert
    \/ MeasureRaises
    \/ RevertRaises
    \/ LoopEnd
    \/ FinalKeep
    \/ FinalRestore
    \/ Cleanup

\* the runs that start with both files present, x holding 1 and a/x holding 0
InitReturns ==
    /\ Init
    /\ tree[PX] = 1
    /\ tree[PAX] = 0

\* the program is sequential and every call returns: a step that can be
\* taken is taken
SpecReturns == InitReturns /\ [][NextReturns]_vars /\ WF_vars(NextReturns)

(* ---------------------------------------------------------------------- *)
(* Runs under the assumptions of a well-behaved environment: the           *)
(* measurement is a function of the tree, a successful sed command changes *)
(* only its target files, whose basenames are distinct, a failing one      *)
(* changes nothing, and nothing raises                                     *)
(* ---------------------------------------------------------------------- *)
InitAssumed ==
    /\ RunStart
    /\ oracle = OracleOn
    /\ ParserIdle

DistinctBasenames(targets) ==
    \A i, j \in 1..Len(targets) :
        i # j => Basename(targets[i]) # Basename(targets[j])

BackupTargetsDistinct ==
    /\ BackupTargets
    /\ DistinctBasenames(TargetFiles(tree, Command))

ApplyOkConfined ==
    /\ ApplyOk
    /\ \A p \in Paths :
           (\A i \in 1..Len(backups) : backups[i] # p) => tree'[p] = tree[p]

ApplyFailsClean ==
    /\ ApplyFails
    /\ tree' = tree

\* the full restore of line 231 is left out: that no run made of these steps
\* can take it is what is checked of them
NextAssumed ==
    \/ Start
    \/ ResolveClipboard
    \/ ResolveFile
    \/ ResolveNotFound
    \/ Baseline
    \/ SkipCommand
    \/ BackupTargetsDistinct
    \/ ApplyOkConfined
    \/ ApplyFailsClean
    \/ MeasureKeep
    \/ MeasureRevert
    \/ LoopEnd
    \/ FinalKeep
    \/ Cleanup

SpecAssumed == InitAssumed /\ [][NextAssumed]_vars

(* ---------------------------------------------------------------------- *)
(* parse_cargo_output applied to a text, line by line                      *)
(* ---------------------------------------------------------------------- *)
runVars == <<pc, clipboard, sed_file, tree, tree0, initial_backup, backup_state,
             sed_commands, idx, initial, new, tmpdir, backups, preTree, base,
             decision, final, rolledBack, producerInvoked, mutatorInvoked,
             steps, fileRead, oracle>>

\* process_sed_commands is not running
RunIdle ==
    /\ pc = "idle"
    /\ clipboard = Consumed
    /\ sed_file = Consumed
    /\ tree = EmptyTree
    /\ tree0 = EmptyTree
    /\ initial_backup = EmptyTree
    /\ backup_state = "none"
    /\ sed_commands = <<>>
    /\ idx = 0
    /\ initial = NoMeas
    /\ new = NoMeas
    /\ tmpdir = EmptyTmp
    /\ backups = <<>>
    /\ preTree = EmptyTree
    /\ base = NoMeas
    /\ decision = "none"
    /\ final = Errors(NoMeas)
    /\ rolledBack = "none"
    /\ producerInvoked = FALSE
    /\ mutatorInvoked = FALSE
    /\ steps = <<>>
    /\ fileRead = FALSE
    /\ oracle = OracleOff

InitParse ==
    /\ RunIdle
    /\ output \in OutputPool
    /\ rest = <<>>
    /\ errors = 0
    /\ warnings = 0
    /\ ppc = "begin"

\* lines 39-40 and 50: the counters start at zero, the text is split
ParseBegin ==
    /\ ppc = "begin"
    /\ errors' = 0
    /\ warnings' = 0
    /\ rest' = SplitLines(output)
    /\ ppc' = "lines"
    /\ UNCHANGED <<runVars, output>>

\* a scan that stops at the first compile-failure summary line
ParseLineStopsAtSummary ==
    /\ ppc = "lines"
    /\ rest # <<>>
    /\ LET c == LineCounts(Head(rest)) IN
         /\ errors' = errors + c[1]
         /\ warnings' = warnings + c[2]
    /\ rest' = IF Match(Head(rest), compile_fail_pattern, TRUE).ok
               THEN <<>> ELSE Tail(rest)
    /\ UNCHANGED <<runVars, output, ppc>>

\* lines 55-72: one line is scanned
ParseLine ==
    /\ ppc = "lines"
    /\ rest # <<>>
    /\ LET c == LineCounts(Head(rest)) IN
         /\ errors' = errors + c[1]
         /\ warnings' = warnings + c[2]
    /\ rest' = Tail(rest)
    /\ UNCHANGED <<runVars, output, ppc>>

\* line 74: return errors, warnings
ParseReturn ==
    /\ ppc = "lines"
    /\ rest = <<>>
    /\ ppc' = "returned"
    /\ UNCHANGED <<runVars, output, rest, errors, warnings>>

NextParse ==
    \/ ParseBegin
    \/ ParseLine
    \/ ParseReturn

SpecParse == InitParse /\ [][NextParse]_vars

(* ---------------------------------------------------------------------- *)
(* Properties                                                              *)
(* ---------------------------------------------------------------------- *)
Total(m) == m.ce + m.te
Finished == pc \in {"cleanup", "done"}

\* C1: a run that completes with a final error total above the pre-run
\* error total has performed the full restore and ends with the tree equal
\* to the run-level snapshot; a run that completes without rollback does not
\* end with a higher error total than the first measurement.
C1_WholeRunRollback ==
    /\ (Finished /\ rolledBack # "none" /\ Total(final) > Total(initial))
          => /\ rolledBack = "yes"
             /\ tree = tree0
             /\ (pc = "cleanup" => tree = initial_backup)
    /\ (Finished /\ rolledBack = "no") => Total(final) <= Total(initial)

C1_Witness ==
    /\ pc = "done"
    /\ rolledBack = "yes"
    /\ Total(final) > Total(initial)
    /\ preTree # tree0
    /\ \E p \in Paths : preTree[p] # Absent /\ tree0[p] = Absent
    /\ tree = tree0

\* C2: whenever a command is accepted, each channel's error count measured
\* after it is at most that channel's count in the most recently accepted
\* state (the pre-run measurement if nothing was accepted yet).
C2_MonotoneOnAccept ==
    [][(pc = "measure" /\ decision' = "accepted")
          => (new'.ce <= base.ce /\ new'.te <= base.te)]_vars

\* C3 as written: a command whose measurement equals the baseline in every
\* error and warning count is reverted, the tree is as before the command.
C3_NoNetValueReverted ==
    [][(pc = "measure" /\ new' = base)
          => (decision' = "reverted" /\ tree' = preTree)]_vars

\* C3: a successfully applied command whose measurement equals the baseline
\* in every error and warning count is kept: the tree stays as the command
\* left it, and the loop goes on to the next command.
C3_NoNetValueKept ==
    [][(pc = "measure" /\ (new' = base \/ new' = initial))
          => (decision' = "accepted" /\ tree' = tree /\ idx' = idx + 1
              /\ pc' = "loop")]_vars

C3_Witness ==
    /\ pc = "loop"
    /\ idx = 2
    /\ decision = "accepted"
    /\ new = initial
    /\ tree # tree0

\* C4 as written: a command with an anomalous error reduction (above 8 and
\* above half of the pre-change count in some channel) is reverted.
C4_AnomalousReverted ==
    [][(pc = "measure" /\ new' \in Meas /\ Anomalous(new', base))
          => (decision' # "accepted" /\ pc' = "loop" /\ idx' = idx + 1)]_vars

\* C4: a command with an anomalous error reduction is kept whenever no
\* channel's error count is above its pre-run count, and the loop goes on to
\* the next command.
C4_AnomalousKept ==
    [][(pc = "measure" /\ new' \in Meas /\ Anomalous(new', base)
        /\ new'.ce <= initial.ce /\ new'.te <= initial.te)
          => (decision' = "accepted" /\ tree' = tree /\ idx' = idx + 1
              /\ pc' = "loop")]_vars

C4_Witness ==
    /\ pc = "loop"
    /\ idx = 2
    /\ decision = "accepted"
    /\ initial.ce = 10
    /\ new.ce = 1
    /\ new.te = initial.te
    /\ Anomalous(new, initial)
    /\ tree # tree0

\* C5: the baseline each measurement is compared against (initial_* in the
\* code) equals the measurement of the most recently accepted command, or
\* the pre-run measurement if none was accepted.
C5_BaselineTracksAccepted ==
    pc \in {"loop", "apply", "measure"} => initial = base

\* C6: a command whose invocation exits nonzero is skipped without a
\* measurement and every backed-up target file is restored, so the target
\* files are as they were before the command was applied.
C6_ApplyFailureRestores ==
    [][(pc = "apply" /\ decision' = "failed")
          => /\ steps' = <<"backup", "apply">>
             /\ \A i \in 1..Len(backups) :
                  tree'[backups[i]] = preTree[backups[i]]]_vars

\* C7: when an exception ends a command after its backup was completed, the
\* backed-up target files are restored; when no backup was completed nothing
\* is restored.
C7_ExceptionReverts ==
    [][(decision' = "exception" /\ idx' = idx + 1)
          => /\ pc \in {"apply", "measure"}
                  => \A i \in 1..Len(backups) :
                       tree'[backups[i]] = preTree[backups[i]]
             /\ pc = "loop" => tree' = tree]_vars

\* C8: with no clipboard content that starts with "sed" and no sed.sh, the
\* run has terminated once the sources are resolved, with the tree
\* unchanged and neither the diagnostic producer nor the mutator invoked.
C8_NoCommandsPath ==
    (pc \notin {"start", "resolve"} /\ ~ClipboardHasSed(clipboard)
     /\ clipboard # Consumed /\ sed_file = NoFile)
        => /\ pc = "done"
           /\ tree = tree0
           /\ ~producerInvoked
           /\ ~mutatorInvoked

C8_Witness ==
    /\ pc = "done"
    /\ clipboard = ClipOther
    /\ sed_file = NoFile
    /\ tree = tree0
    /\ tree[PX] # Absent
    /\ sed_commands = <<>>

\* the non-blank lines of a file, in file order, each without its
\* surrounding whitespace
NonBlank(line) == \E i \in 1..Len(line) : line[i] # " "
NonBlankLines(lines) ==
    LET kept == SelectSeq(lines, NonBlank)
    IN  [i \in 1..Len(kept) |-> Strip(kept[i])]

\* C9: when the clipboard's trimmed content starts with "sed" the command
\* list is that content as a single command and sed.sh is not read, whether
\* or not it exists; otherwise the command list is the non-blank lines of
\* sed.sh in file order.
C9_SourcePrecedence ==
    [][(pc = "resolve" /\ pc' = "baseline")
          => IF clipboard # Unavailable /\ StartsWith(Strip(clipboard), SedWord)
             THEN /\ sed_commands' = <<Strip(clipboard)>>
                  /\ ~fileRead'
                  /\ sed_file' = sed_file
             ELSE /\ sed_commands' = NonBlankLines(sed_file)
                  /\ fileRead']_vars

C9_Witness ==
    /\ pc = "baseline"
    /\ sed_file = FileOne
    /\ ~fileRead
    /\ sed_commands = <<<<"s", "e", "d", " ", "x", ";">>>>

\* C10: when the run has ended, on any exit path, the run-level backup has
\* been deleted; it still exists until the final rollback decision is made.
C10_BackupDeletedOnExit ==
    /\ pc \in {"done", "crashed"} => backup_state = "deleted"
    /\ pc \in {"baseline", "loop", "apply", "measure", "final"}
          => backup_state = "exists"

(* ---------------------------------------------------------------------- *)
(* Properties of parse_cargo_output                                        *)
(* ---------------------------------------------------------------------- *)
Returned == ppc = "returned"
ScansLine(line) == ppc = "lines" /\ rest # <<>> /\ Head(rest) = line

\* C11: a compile-failure summary line "error: could not compile T, due to
\* N previous errors; M warnings emitted" adds exactly N to errors and M to
\* warnings and is not counted again by the individual "error:" rule; the
\* text of that one line with N = 3 and M = 2 parses to (3, 2)
C11_SummaryLinePrecedence ==
    [][/\ \A n, m \in NumberWords :
            ScansLine(SummaryForm(n, m)) =>
                /\ errors' = errors + IntOf(n)
                /\ warnings' = warnings + IntOf(m)
       /\ (ppc' = "returned" /\ SplitLines(output) = <<SummaryLine>>) =>
                (errors' = 3 /\ warnings' = 2)]_vars

C11_Witness ==
    /\ Returned
    /\ SplitLines(output) = <<SummaryLine>>
    /\ errors = 3
    /\ warnings = 2

\* C12: a line "warning: 2 warnings emitted", which is not a compile-failure
\* summary line, adds 2 to warnings
C12_WarningsEmittedAddsN ==
    [][ScansLine(WarningsEmittedLine) => warnings' = warnings + 2]_vars

Plus(a, b) == <<a[1] + b[1], a[2] + b[2]>>
Text(ls) == JoinLines(ls, TRUE)

\* C13: the counts of a text are the field-wise sum of the counts of its
\* lines: they are the sum of the counts of any two parts the lines are cut
\* into, the same for every order of the lines, doubled when every line is
\* repeated, and (0, 0) for the empty text
C13_AdditiveOrderFree ==
    Returned =>
        LET ls == SplitLines(output)
            n == Len(ls)
        IN  /\ \A k \in 0..n :
                  <<errors, warnings>> =
                      Plus(parse_cargo_output(Text(SubSeq(ls, 1, k))),
                           parse_cargo_output(Text(SubSeq(ls, k + 1, n))))
            /\ \A f \in Permutations(1..n) :
                  parse_cargo_output(Text([i \in 1..n |-> ls[f[i]]])) =
                      <<errors, warnings>>
            /\ parse_cargo_output(Text(ls \o ls)) =
                  <<errors + errors, warnings + warnings>>
            /\ (output = <<>> => errors = 0 /\ warnings = 0)

C13_Witness ==
    /\ Returned
    /\ SplitLines(output) = <<ErrorLine, SummaryLine, ErrorLine>>
    /\ errors = 5
    /\ warnings = 2

(* ---------------------------------------------------------------------- *)
(* Properties of the per-command steps                                     *)
(* ---------------------------------------------------------------------- *)
InLoop == pc \in {"loop", "apply", "measure"}
AllSteps == <<"backup", "apply", "measure", "restore">>

\* every target file the command was found to have is a key of backups and
\* has a copy in tmpdir
BackedUp ==
    LET targets == TargetFiles(preTree, Command)
    IN  \A i \in 1..Len(targets) :
            /\ \E j \in 1..Len(backups) : backups[j] = targets[i]
            /\ tmpdir[Basename(targets[i])] # Absent

\* C14: within one command the steps are ordered: every discovered target is
\* backed up before the sed command is run, the re-measurement follows a
\* successful sed command and precedes the decision, the per-command restore
\* follows that measurement, and the tree is never changed by a command
\* whose targets were not backed up first
C14_StepOrder ==
    [][/\ pc = "apply" => (steps = <<"backup">> /\ BackedUp)
       /\ pc = "measure" => steps = <<"backup", "apply">>
       /\ (pc = "measure" /\ decision' = "accepted") =>
              steps' = SubSeq(AllSteps, 1, 3)
       /\ (pc = "measure" /\ decision' = "reverted") => steps' = AllSteps
       /\ (InLoop /\ (tree' # tree \/ mutatorInvoked' # mutatorInvoked)) =>
              (steps # <<>> /\ Head(steps) = "backup" /\ BackedUp)]_vars

C14_Witness ==
    /\ pc = "loop"
    /\ decision = "reverted"
    /\ steps = AllSteps
    /\ mutatorInvoked

\* C15: after a revert every target file of the command has the content it
\* had immediately before the command was applied, also when two targets in
\* different directories share a basename
C15_RevertRestoresTargets ==
    [][(pc = "measure" /\ decision' = "reverted") =>
           \A i \in 1..Len(backups) :
               tree'[backups[i]] = preTree[backups[i]]]_vars

(* ---------------------------------------------------------------------- *)
(* Properties of the loop as a whole                                       *)
(* ---------------------------------------------------------------------- *)
\* how the processing of a command ends: "failed" is the "skipping" of line
\* 194, "exception" the handler of lines 217-219, which also moves on to the
\* next command
Outcomes == {"skipped", "failed", "exception", "accepted", "reverted"}

\* C16: once a non-empty command list is resolved every command is processed
\* exactly once, in list order, each ending in one outcome (skipped, which
\* includes a failed or abandoned command, accepted or reverted) whatever the
\* earlier outcomes were; after the last command the final measurement is
\* taken and the run ends, without rollback or with the full rollback
C16_LoopTerminates ==
    /\ [][/\ InLoop => idx' \in {idx, idx + 1}
          /\ (InLoop /\ idx' = idx + 1) =>
                 /\ idx <= Len(sed_commands)
                 /\ decision' \in Outcomes
                 /\ pc' = "loop"
          /\ (InLoop /\ idx' = idx /\ pc' # "final") => decision' = "none"
          /\ (InLoop /\ pc' = "final") => idx = Len(sed_commands) + 1
          /\ (pc = "final" /\ pc' # "final") =>
                 /\ final' \in ErrPairs
                 /\ rolledBack' \in {"no", "yes"}]_vars
    /\ <>(/\ pc = "done"
          /\ sed_commands # <<>> =>
                 (idx = Len(sed_commands) + 1 /\ rolledBack \in {"no", "yes"}))

C16_Witness ==
    /\ pc = "done"
    /\ Len(sed_commands) = 2
    /\ idx = 3
    /\ rolledBack = "yes"

\* C17: when the measurement is a function of the tree, a successful sed
\* command changes only its targets (of distinct basenames), a failing one
\* changes nothing and nothing raises, then after every command's decision
\* each channel's error count of the current tree is at most that channel's
\* pre-run count, and the final measurement cannot call for the full restore
C17_TreeNeverWorse ==
    /\ (pc = "loop" /\ idx >= 1) =>
           /\ oracle.m[tree] # NoMeas
           /\ oracle.m[tree].ce <= initial.ce
           /\ oracle.m[tree].te <= initial.te
    /\ pc = "final" =>
           \A e \in FinalReadings(tree) : ~(e.ce > initial.ce \/ e.te > initial.te)
    /\ rolledBack # "yes"

C17_Witness ==
    /\ pc = "cleanup"
    /\ idx = 3
    /\ decision = "none"
    /\ tree # tree0
    /\ \E t \in Trees : oracle.m[t] # NoMeas /\ oracle.m[t].ce > initial.ce
    /\ rolledBack = "no"

(* ---------------------------------------------------------------------- *)
(* Properties of the decisions                                             *)
(* ---------------------------------------------------------------------- *)
\* C18: the full restore is performed exactly when some channel's final
\* error count is above that channel's pre-run count, also when the sum of
\* the two counts did not rise; when no channel rose the tree with every
\* kept change is left as it is until the run ends
C18_RollbackPerChannel ==
    [][/\ (pc = "final" /\ pc' = "cleanup") =>
              /\ rolledBack' = "yes" <=>
                     (final'.ce > initial.ce \/ final'.te > initial.te)
              /\ rolledBack' = "yes" => tree' = initial_backup
              /\ rolledBack' = "no" => tree' = tree
       /\ pc = "cleanup" => (tree' = tree /\ rolledBack' = rolledBack)]_vars

C18_Witness ==
    /\ pc = "done"
    /\ rolledBack = "yes"
    /\ final.ce > initial.ce
    /\ final.ce + final.te <= initial.ce + initial.te
    /\ preTree # tree0
    /\ tree = tree0

\* no whitespace-delimited token of the command, trailing "," and ";"
\* stripped, is an existing path
NoTokenExists ==
    LET parts == Split(Command)
    IN  \A i \in 1..Len(parts) : ~Exists(tree, RStripPunct(parts[i]))

\* C19: a command none of whose tokens names an existing path is skipped as
\* a whole: nothing is backed up, the sed command is not run, nothing is
\* measured, and the tree and the reference counts stay as they are
C19_NoTargetNoEffect ==
    [][(HasCommand /\ NoTokenExists) =>
           /\ decision' = "skipped"
           /\ idx' = idx + 1
           /\ pc' = "loop"
           /\ tree' = tree
           /\ tmpdir' = tmpdir
           /\ backups' = backups
           /\ steps' = <<>>
           /\ mutatorInvoked' = mutatorInvoked
           /\ producerInvoked' = producerInvoked
           /\ new' = NoMeas
           /\ initial' = initial
           /\ base' = base]_vars

C19_Witness ==
    /\ pc = "loop"
    /\ idx = 3
    /\ decision = "skipped"
    /\ tree[PX] = Absent
    /\ tree0[PX] # Absent
    /\ new = NoMeas

\* the measurement m with other warning counts
WithWarnings(m, a, b) == [m EXCEPT !.cw = a, !.tw = b]

\* C20: warning counts do not influence any decision: whenever a command was
\* accepted or reverted, a second run with the same error counts in its new
\* and its pre-run measurement, whatever their warning counts, takes the same
\* decision, and likewise for the decision on the full restore
C20_WarningsIgnored ==
    /\ (pc = "loop" /\ decision \in {"accepted", "reverted"}) =>
           \A a, b, c, d \in WarnVals :
               KeepsChange(WithWarnings(new, a, b), WithWarnings(initial, c, d))
                   <=> decision = "accepted"
    /\ (pc \in {"cleanup", "done"} /\ rolledBack \in {"no", "yes"}) =>
           \A c, d \in WarnVals :
               ErrorsIncreased(final, WithWarnings(initial, c, d))
                   <=> rolledBack = "yes"

C20_Witness ==
    /\ pc = "loop"
    /\ decision = "accepted"
    /\ new.cw > initial.cw
    /\ new.tw > initial.tw
    /\ tree # preTree \/ tree # tree0

====
